---- MODULE Spec2Model ----
(***************************************************************************)
(* A model of the material take-off pipeline of src/utils.py and           *)
(* src/main.py: flatten_base, filter_objects_by_category, get_nested_attr, *)
(* extract_material_data and automate_function.                            *)
(*                                                                         *)
(* Python values are tagged records.  A Python str is a sequence of        *)
(* one-character strings, so that split, strip, capitalize and + are       *)
(* computed character by character.  A dict is the sequence of its         *)
(* <<key, value>> pairs in insertion order.  Base objects live in `heap`   *)
(* and are referred to by their identity (an index of the heap).           *)
(***************************************************************************)
EXTENDS Integers, Sequences, FiniteSets, TLC

VARIABLES
    heap,                \* identity -> attribute pairs of the Base object
    pc,                  \* position of the running function
    args,                \* arguments of a direct call of a helper of utils.py
    ret,                 \* what that call returned
    function_inputs,     \* FunctionInputs handed to automate_function
    all_objects,         \* main.py:92
    filtered_items,      \* main.py:120/122
    material_dataset,    \* main.py:126
    df,                  \* main.py:131
    table,               \* the frame handed to the Excel writer
    run_failed,          \* number of automate_context.mark_run_failed calls
    stored,              \* number of automate_context.store_file_result calls
    raised               \* an exception left automate_function

vars == <<heap, pc, args, ret, function_inputs, all_objects, filtered_items,
          material_dataset, df, table, run_failed, stored, raised>>

----------------------------------------------------------------------------
(* Python values *)

Null == [t |-> "None"]
NaN == [t |-> "nan"]
Unbound == [t |-> "unbound"]
Num(n) == [t |-> "num", n |-> n]
Str(s) == [t |-> "str", s |-> s]
Dict(m) == [t |-> "dict", m |-> m]
List(l) == [t |-> "list", l |-> l]
Obj(a) == [t |-> "obj", a |-> a]

IsDict(v) == v.t = "dict"
IsNum(v) == v.t = "num"
IsStr(v) == v.t = "str"

Range(s) == {s[i] : i \in 1..Len(s)}

RECURSIVE SumSeq(_)
SumSeq(s) == IF s = <<>> THEN 0 ELSE Head(s) + SumSeq(Tail(s))

RECURSIVE Concat(_)
Concat(ss) == IF ss = <<>> THEN <<>> ELSE Head(ss) \o Concat(Tail(ss))

(* dict: lookup with default (dict.get, getattr) and item assignment *)
HasKey(pairs, k) == \E i \in 1..Len(pairs) : pairs[i][1] = k
Lookup(pairs, k, d) ==
    IF HasKey(pairs, k)
    THEN pairs[CHOOSE i \in 1..Len(pairs) : pairs[i][1] = k][2]
    ELSE d
DictSet(pairs, k, v) ==
    IF HasKey(pairs, k)
    THEN [i \in 1..Len(pairs) |-> IF pairs[i][1] = k THEN <<k, v>> ELSE pairs[i]]
    ELSE Append(pairs, <<k, v>>)
Keys(pairs) == [i \in 1..Len(pairs) |-> pairs[i][1]]

hasattr(obj, name) == obj.t = "obj" /\ HasKey(obj.a, name)
getattr(obj, name, default) ==
    IF obj.t = "obj" THEN Lookup(obj.a, name, default) ELSE default
DictGet(d, key, default) == Lookup(d.m, key, default)

----------------------------------------------------------------------------
(* Python str operations *)

LowerCase == <<"a", "b", "c", "d", "e", "f", "g", "h", "i", "j", "k", "l", "m",
               "n", "o", "p", "q", "r", "s", "t", "u", "v", "w", "x", "y", "z">>
UpperCase == <<"A", "B", "C", "D", "E", "F", "G", "H", "I", "J", "K", "L", "M",
               "N", "O", "P", "Q", "R", "S", "T", "U", "V", "W", "X", "Y", "Z">>

Upper(c) ==
    IF \E i \in 1..Len(LowerCase) : LowerCase[i] = c
    THEN UpperCase[CHOOSE i \in 1..Len(LowerCase) : LowerCase[i] = c]
    ELSE c
Lower(c) ==
    IF \E i \in 1..Len(UpperCase) : UpperCase[i] = c
    THEN LowerCase[CHOOSE i \in 1..Len(UpperCase) : UpperCase[i] = c]
    ELSE c

(* str.capitalize(): first character upper-cased, the rest lower-cased *)
capitalize(s) ==
    [i \in 1..Len(s) |-> IF i = 1 THEN Upper(s[i]) ELSE Lower(s[i])]

(* str.split(sep) for a one-character sep: always at least one part *)
RECURSIVE split(_, _)
split(s, sep) ==
    IF \E i \in 1..Len(s) : s[i] = sep
    THEN LET i == CHOOSE j \in 1..Len(s) :
                      s[j] = sep /\ \A k \in 1..(j - 1) : s[k] # sep
         IN  <<SubSeq(s, 1, i - 1)>> \o split(SubSeq(s, i + 1, Len(s)), sep)
    ELSE <<s>>

(* str.strip(): leading and trailing blanks removed *)
RECURSIVE strip(_)
strip(s) ==
    IF s = <<>> THEN s
    ELSE IF Head(s) = " " THEN strip(Tail(s))
    ELSE IF s[Len(s)] = " " THEN strip(SubSeq(s, 1, Len(s) - 1))
    ELSE s

s_elements == <<"e", "l", "e", "m", "e", "n", "t", "s">>
s_atElements == <<"@", "e", "l", "e", "m", "e", "n", "t", "s">>
s_category == <<"c", "a", "t", "e", "g", "o", "r", "y">>
s_level == <<"l", "e", "v", "e", "l">>
s_family == <<"f", "a", "m", "i", "l", "y">>
s_type == <<"t", "y", "p", "e">>
s_properties == <<"p", "r", "o", "p", "e", "r", "t", "i", "e", "s">>
s_MaterialQuantities == <<"M", "a", "t", "e", "r", "i", "a", "l", " ", "Q", "u", "a", "n", "t", "i", "t", "i", "e", "s">>
s_Parameters == <<"P", "a", "r", "a", "m", "e", "t", "e", "r", "s">>
s_TypeParameters == <<"T", "y", "p", "e", " ", "P", "a", "r", "a", "m", "e", "t", "e", "r", "s">>
s_Structure == <<"S", "t", "r", "u", "c", "t", "u", "r", "e">>
s_Material == <<"M", "a", "t", "e", "r", "i", "a", "l">>
s_LevelName == <<"L", "e", "v", "e", "l", " ", "N", "a", "m", "e">>
s_Category == <<"C", "a", "t", "e", "g", "o", "r", "y">>
s_Family == <<"F", "a", "m", "i", "l", "y">>
s_Type == <<"T", "y", "p", "e">>
s_value == <<"v", "a", "l", "u", "e">>
s_units == <<"u", "n", "i", "t", "s">>
s_materialName == <<"m", "a", "t", "e", "r", "i", "a", "l", "N", "a", "m", "e">>
s_Quantity == <<"Q", "u", "a", "n", "t", "i", "t", "y">>
s_StructuralSp == <<"S", "t", "r", "u", "c", "t", "u", "r", "a", "l", " ">>
s_open == <<" ", "(", " ">>
s_close == <<" ", ")">>

----------------------------------------------------------------------------
(* utils.py: flatten_base *)

RECURSIVE flatten_preorder(_, _)
RECURSIVE FlattenEachPreorder(_, _)

(* the mutant: the node is yielded before its elements *)
flatten_preorder(h, base) ==
    LET elements == getattr(Obj(h[base]), s_elements,
                            getattr(Obj(h[base]), s_atElements, Null))
    IN  <<base>>
        \o (IF elements # Null THEN FlattenEachPreorder(h, elements.l) ELSE <<>>)

FlattenEachPreorder(h, elements) ==
    IF elements = <<>> THEN <<>>
    ELSE flatten_preorder(h, Head(elements))
         \o FlattenEachPreorder(h, Tail(elements))

RECURSIVE flatten_base(_, _)
RECURSIVE FlattenEach(_, _)

(* the generator, run to its end: the sequence of the identities it yields *)
flatten_base(h, base) ==
    LET elements == getattr(Obj(h[base]), s_elements,
                            getattr(Obj(h[base]), s_atElements, Null))
    IN  (IF elements # Null THEN FlattenEach(h, elements.l) ELSE <<>>)
        \o <<base>>

FlattenEach(h, elements) ==
    IF elements = <<>> THEN <<>>
    ELSE flatten_base(h, Head(elements)) \o FlattenEach(h, Tail(elements))

----------------------------------------------------------------------------
(* utils.py: filter_objects_by_category *)

(* the mutant: an object without a `category` attribute is kept *)
filter_keeps_uncategorised(h, all_objs, filter_categories) ==
    SelectSeq(all_objs,
              LAMBDA i : ~hasattr(Obj(h[i]), s_category)
                         \/ \E j \in 1..Len(filter_categories) :
                                filter_categories[j] = getattr(Obj(h[i]), s_category, Null))

filter_objects_by_category(h, all_objs, filter_categories) ==
    SelectSeq(all_objs,
              LAMBDA i : /\ hasattr(Obj(h[i]), s_category)
                         /\ \E j \in 1..Len(filter_categories) :
                                filter_categories[j] = getattr(Obj(h[i]), s_category, Null))

----------------------------------------------------------------------------
(* utils.py: get_nested_attr *)

(* the loop over the parts of the path *)
RECURSIVE ResolveParts(_, _, _)
ResolveParts(obj, parts, default) ==
    IF parts = <<>> THEN obj
    ELSE LET nxt == IF IsDict(obj)
                    THEN DictGet(obj, Head(parts), default)
                    ELSE getattr(obj, Head(parts), default)
         IN  IF nxt = Null THEN default
             ELSE ResolveParts(nxt, Tail(parts), default)

(* a path that is no str has no split: the AttributeError is caught *)
get_nested_attr(obj, attr_path, default) ==
    IF ~IsStr(attr_path) THEN default
    ELSE ResolveParts(obj, split(attr_path.s, "."), default)

----------------------------------------------------------------------------
(* utils.py: extract_material_data *)

(* the result of a call: a value, or an exception raised *)
Ok(v) == [ok |-> TRUE, v |-> v]
Raise == [ok |-> FALSE]

(* numbers are counted in units of 1 / Scale *)
Scale == 100000
RoundUnit == 10

(* round(x, 4): to the nearest multiple of 0.0001, a tie to the even one *)
Round4(n) ==
    LET q == n \div RoundUnit
        r == n % RoundUnit
    IN  IF 2 * r < RoundUnit THEN q * RoundUnit
        ELSE IF 2 * r > RoundUnit THEN (q + 1) * RoundUnit
        ELSE IF q % 2 = 0 THEN q * RoundUnit
        ELSE (q + 1) * RoundUnit

(* bool(v) of `if include_structural and structural_quantities` *)
Truthy(v) ==
    CASE v.t = "None" -> FALSE
      [] v.t = "dict" -> v.m # <<>>
      [] v.t = "str" -> v.s # <<>>
      [] v.t = "num" -> v.n # 0
      [] OTHER -> TRUE

(* lines 83-84: properties and its 'Material Quantities' *)
properties_of(h, item) == getattr(Obj(h[item]), s_properties, Dict(<<>>))

(* lines 87-94: the structural mapping, a missing or null step giving {};   *)
(* .get on a value that is neither a dict nor None raises                   *)
structural_quantities_of(properties, include_structural) ==
    IF ~include_structural THEN Ok(Dict(<<>>))
    ELSE LET parameters == DictGet(properties, s_Parameters, Dict(<<>>))
         IN  IF parameters = Null THEN Ok(Dict(<<>>))
             ELSE IF ~IsDict(parameters) THEN Raise
             ELSE LET type_parameters ==
                          DictGet(parameters, s_TypeParameters, Dict(<<>>))
                  IN  IF type_parameters = Null THEN Ok(Dict(<<>>))
                      ELSE IF ~IsDict(type_parameters) THEN Raise
                      ELSE Ok(DictGet(type_parameters, s_Structure, Dict(<<>>)))

(* lines 103-109 *)
FixedColumns(h, item, material) ==
    <<  <<s_Material, Str(material)>>,
        <<s_LevelName, getattr(Obj(h[item]), s_level, Null)>>,
        <<s_Category, getattr(Obj(h[item]), s_category, Null)>>,
        <<s_Family, getattr(Obj(h[item]), s_family, Null)>>,
        <<s_Type, getattr(Obj(h[item]), s_type, Null)>>  >>

(* the mutant: the column is named by upper-casing the first character only *)
ParamColumnFirstUpper(param) ==
    [i \in 1..Len(param) |-> IF i = 1 THEN Upper(param[i]) ELSE param[i]]

(* line 112: the column of an extra parameter *)
ParamColumn(param) == capitalize(param)

(* lines 111-112 *)
RECURSIVE SetParams(_, _, _, _)
SetParams(row, h, item, other_params) ==
    IF other_params = <<>> THEN row
    ELSE SetParams(DictSet(row, ParamColumn(Head(other_params)),
                           get_nested_attr(Obj(h[item]),
                                           Str(Head(other_params)), Null)),
                   h, item, Tail(other_params))

(* line 117: the column of a {value, units} attribute *)
UnitColumn(key, units) == capitalize(key) \o s_open \o units \o s_close

(* lines 115-119: str + a non-str and round of a non-number raise *)
RECURSIVE SetAttributes(_, _)
SetAttributes(row, attributes) ==
    IF attributes = <<>> THEN Ok(row)
    ELSE LET key == Head(attributes)[1]
             value == Head(attributes)[2]
         IN  IF IsDict(value) /\ HasKey(value.m, s_value)
             THEN LET units == DictGet(value, s_units, Str(<<>>))
                      number == DictGet(value, s_value, Null)
                  IN  IF ~IsStr(units) \/ ~IsNum(number) THEN Raise
                      ELSE SetAttributes(
                               DictSet(row, UnitColumn(key, units.s),
                                       Num(Round4(number.n))),
                               Tail(attributes))
             ELSE SetAttributes(DictSet(row, key, value), Tail(attributes))

(* line 130: the column of a structural sub-key *)
StructuralColumn(sub_key) == s_StructuralSp \o capitalize(sub_key)

(* lines 129-130 *)
RECURSIVE SetStructural(_, _)
SetStructural(row, struct_value) ==
    IF struct_value = <<>> THEN row
    ELSE SetStructural(DictSet(row, StructuralColumn(Head(struct_value)[1]),
                               Head(struct_value)[2]),
                       Tail(struct_value))

(* the mutant: the structural entry after the material's own place is taken *)
AttachStructuralOffByOne(row, index, include_structural, structural_quantities) ==
    IF include_structural /\ Truthy(structural_quantities)
    THEN IF ~IsDict(structural_quantities) THEN Raise
         ELSE LET struct_items == structural_quantities.m
              IN  IF index + 1 < Len(struct_items)
                  THEN LET struct_value == struct_items[index + 2][2]
                       IN  IF IsDict(struct_value)
                           THEN Ok(SetStructural(row, struct_value.m))
                           ELSE Ok(row)
                  ELSE Ok(row)
    ELSE Ok(row)

(* lines 122-130: `index` is the zero-based place of the material *)
AttachStructural(row, index, include_structural, structural_quantities) ==
    IF include_structural /\ Truthy(structural_quantities)
    THEN IF ~IsDict(structural_quantities) THEN Raise
         ELSE LET struct_items == structural_quantities.m
              IN  IF index < Len(struct_items)
                  THEN LET struct_value == struct_items[index + 1][2]
                       IN  IF IsDict(struct_value)
                           THEN Ok(SetStructural(row, struct_value.m))
                           ELSE Ok(row)
                  ELSE Ok(row)
    ELSE Ok(row)

(* lines 102-132: the row of the material at the zero-based place `index` *)
MaterialRow(h, item, index, material_quantities, other_params, include_structural, structural_quantities) ==
    LET material == material_quantities[index + 1][1]
        attributes == material_quantities[index + 1][2]
        row == SetParams(FixedColumns(h, item, material), h, item, other_params)
    IN  IF ~IsDict(attributes) THEN Raise
        ELSE LET withAttributes == SetAttributes(row, attributes.m)
             IN  IF ~withAttributes.ok THEN Raise
                 ELSE AttachStructural(withAttributes.v, index,
                                       include_structural, structural_quantities)

(* the rows of the materials from the place `index` on *)
RECURSIVE MaterialRows(_, _, _, _, _, _, _)
MaterialRows(h, item, index, material_quantities, other_params, include_structural, structural_quantities) ==
    IF index >= Len(material_quantities) THEN Ok(<<>>)
    ELSE LET first == MaterialRow(h, item, index, material_quantities,
                                  other_params, include_structural,
                                  structural_quantities)
         IN  IF ~first.ok THEN Raise
             ELSE LET rest == MaterialRows(h, item, index + 1,
                                           material_quantities, other_params,
                                           include_structural,
                                           structural_quantities)
                  IN  IF ~rest.ok THEN Raise ELSE Ok(<<first.v>> \o rest.v)

(* lines 83-132: the rows of one object *)
ItemRows(h, item, other_params, include_structural) ==
    LET properties == properties_of(h, item)
    IN  IF ~IsDict(properties) THEN Raise
        ELSE LET material_quantities ==
                     DictGet(properties, s_MaterialQuantities, Dict(<<>>))
                 structural_quantities ==
                     structural_quantities_of(properties, include_structural)
             IN  IF ~structural_quantities.ok \/ ~IsDict(material_quantities)
                 THEN Raise
                 ELSE MaterialRows(h, item, 0, material_quantities.m,
                                   other_params, include_structural,
                                   structural_quantities.v)

(* an exception in any object ends the call *)
RECURSIVE extract_material_data(_, _, _, _)
extract_material_data(h, all_objs, other_params, include_structural) ==
    IF all_objs = <<>> THEN Ok(<<>>)
    ELSE LET first == ItemRows(h, Head(all_objs), other_params, include_structural)
         IN  IF ~first.ok THEN Raise
             ELSE LET rest == extract_material_data(h, Tail(all_objs),
                                                    other_params,
                                                    include_structural)
                  IN  IF ~rest.ok THEN Raise ELSE Ok(first.v \o rest.v)

----------------------------------------------------------------------------
(* main.py: automate_function, the reading of its inputs (lines 90-122) *)

version_root_object == 1

(* [x.strip() for x in text.split(",")] *)
StripEach(text) ==
    LET parts == split(text, ",")
    IN  [i \in 1..Len(parts) |-> strip(parts[i])]

filter_categories_of(inputs) ==
    LET names == StripEach(inputs.categories)
    IN  [i \in 1..Len(names) |-> Str(names[i])]

list_prop_of(inputs) == StripEach(inputs.parameters)

group_columns_of(inputs) ==
    (IF inputs.group_by_level THEN <<s_LevelName>> ELSE <<>>)
    \o (IF inputs.group_by_category THEN <<s_Category>> ELSE <<>>)
    \o (IF inputs.group_by_type THEN <<s_Type>> ELSE <<>>)
    \o (IF inputs.group_by_materialName THEN <<s_materialName>> ELSE <<>>)

(* the mutant: the filter is applied whatever `categories` holds *)
filtered_items_always_filtered(h, inputs, all_objs) ==
    filter_objects_by_category(h, all_objs, filter_categories_of(inputs))

(* `if function_inputs.categories:` is the truth value of a str *)
filtered_items_of(h, inputs, all_objs) ==
    IF inputs.categories # <<>>
    THEN filter_objects_by_category(h, all_objs, filter_categories_of(inputs))
    ELSE all_objs

----------------------------------------------------------------------------
(* main.py, line 131: pd.DataFrame(material_dataset).  The frame has the    *)
(* union of the rows' keys as columns, in the order of their first          *)
(* appearance, and NaN where a row lacks a column.  A column whose values   *)
(* are numbers, None or missing, not all of them None, gets a numeric dtype *)
(* and its None become NaN; any other column has the dtype object and keeps *)
(* its values.                                                              *)

RECURSIVE AddColumns(_, _)
AddColumns(columns, names) ==
    IF names = <<>> THEN columns
    ELSE AddColumns(IF Head(names) \in Range(columns) THEN columns
                    ELSE Append(columns, Head(names)),
                    Tail(names))

RECURSIVE ColumnsOf(_, _)
ColumnsOf(columns, rows) ==
    IF rows = <<>> THEN columns
    ELSE ColumnsOf(AddColumns(columns, Keys(Head(rows))), Tail(rows))

InfersNumeric(rows, column) ==
    /\ \A k \in 1..Len(rows) :
           Lookup(rows[k], column, NaN).t \in {"num", "None", "nan"}
    /\ \E k \in 1..Len(rows) :
           Lookup(rows[k], column, NaN).t \in {"num", "nan"}

DataFrame(rows) ==
    LET columns == ColumnsOf(<<>>, rows)
        cell(k, c) ==
            LET value == Lookup(rows[k], columns[c], NaN)
            IN  IF InfersNumeric(rows, columns[c]) /\ value = Null THEN NaN
                ELSE value
    IN  [columns |-> columns,
         rows |-> [k \in 1..Len(rows) |-> [c \in 1..Len(columns) |-> cell(k, c)]]]

ColumnIndex(frame, column) ==
    CHOOSE c \in 1..Len(frame.columns) : frame.columns[c] = column

(* pd.api.types.is_numeric_dtype of a column, or of a group's slice of it:  *)
(* the slice has the dtype of the whole column                              *)
is_numeric_dtype(frame, column) ==
    \A k \in 1..Len(frame.rows) :
        frame.rows[k][ColumnIndex(frame, column)].t \in {"num", "nan"}

----------------------------------------------------------------------------
(* main.py, lines 150-162: the grouping *)

Digit == <<"0", "1", "2", "3", "4", "5", "6", "7", "8", "9">>

RECURSIVE Digits(_)
Digits(n) ==
    IF n < 10 THEN <<Digit[n + 1]>>
    ELSE Digits(n \div 10) \o <<Digit[(n % 10) + 1]>>

RECURSIVE StripZeros(_)
StripZeros(s) ==
    IF Len(s) > 1 /\ s[Len(s)] = "0" THEN StripZeros(SubSeq(s, 1, Len(s) - 1))
    ELSE s

(* str of a float: the integer part, a point, the decimals without          *)
(* trailing zeros, one at least                                             *)
FloatStr(n) ==
    Digits(n \div Scale) \o <<".">> \o StripZeros(Tail(Digits(Scale + (n % Scale))))

(* x.astype(str), of one value *)
PyStr(v) ==
    CASE v.t = "str" -> v.s
      [] v.t = "num" -> FloatStr(v.n)
      [] v.t = "None" -> <<"N", "o", "n", "e">>
      [] v.t = "nan" -> <<"n", "a", "n">>

(* ', '.join(set(...)): the distinct strings joined with ", " in the order  *)
(* the set happens to iterate in, which Python does not fix; the value is   *)
(* kept as the separator and the set of its parts                           *)
Joined(parts) == [t |-> "joined", sep |-> <<",", " ">>, parts |-> parts]

IsNullCell(v) == v.t \in {"None", "nan"}

KeyOf(frame, k, group_columns) ==
    [g \in 1..Len(group_columns) |->
        frame.rows[k][ColumnIndex(frame, group_columns[g])]]

(* groupby(group_columns): dropna=True leaves out the rows with a null in   *)
(* a grouping column                                                        *)
GroupedPlaces(frame, group_columns) ==
    {k \in 1..Len(frame.rows) :
        \A g \in 1..Len(group_columns) :
            ~IsNullCell(KeyOf(frame, k, group_columns)[g])}

(* x.sum(): NaN is skipped *)
SumCells(frame, places, c) ==
    LET n(k) == IF frame.rows[k][c].t = "num" THEN frame.rows[k][c].n ELSE 0
        RECURSIVE SumOver(_)
        SumOver(S) == IF S = {} THEN 0
                      ELSE LET k == CHOOSE x \in S : TRUE
                           IN  n(k) + SumOver(S \ {k})
    IN  SumOver(places)

(* the mutant: the reduction is chosen by the values of the cluster alone *)
AggregatePerCluster(frame, places, column) ==
    LET c == ColumnIndex(frame, column)
    IN  IF /\ \A k \in places : frame.rows[k][c].t \in {"num", "None", "nan"}
           /\ \E k \in places : frame.rows[k][c].t \in {"num", "nan"}
        THEN Num(SumCells(frame, places, c))
        ELSE Joined({PyStr(frame.rows[k][c]) : k \in places})

(* line 153: the lambda, applied to a column of one cluster *)
Aggregate(frame, places, column) ==
    LET c == ColumnIndex(frame, column)
    IN  IF is_numeric_dtype(frame, column)
        THEN Num(SumCells(frame, places, c))
        ELSE Joined({PyStr(frame.rows[k][c]) : k \in places})

OtherColumns(frame, group_columns) ==
    SelectSeq(frame.columns, LAMBDA name : name \notin Range(group_columns))

(* lines 150-162.  A grouping column the frame lacks raises KeyError.  The  *)
(* grouped rows are kept as a set: the claims do not rest on their order.   *)
Grouped(frame, group_columns) ==
    IF \E g \in 1..Len(group_columns) : group_columns[g] \notin Range(frame.columns)
    THEN Raise
    ELSE LET places == GroupedPlaces(frame, group_columns)
             others == OtherColumns(frame, group_columns)
             cluster(key) == {k \in places : KeyOf(frame, k, group_columns) = key}
         IN  Ok([columns |-> <<s_Quantity>> \o group_columns \o others,
                 group_columns |-> group_columns,
                 others |-> others,
                 rows |-> {[key |-> key,
                            Quantity |-> Cardinality(cluster(key)),
                            cells |-> [c \in 1..Len(others) |->
                                          Aggregate(frame, cluster(key), others[c])]] :
                              key \in {KeyOf(frame, k, group_columns) : k \in places}}])

----------------------------------------------------------------------------
(* Values the variables of the pipeline hold while a helper is called       *)
(* directly, and the other way round.                                       *)

DefaultInputs ==
    [file_name |-> <<"f">>, calculate_structural |-> FALSE,
     categories |-> <<>>, parameters |-> <<>>,
     group_by_level |-> FALSE, group_by_category |-> FALSE,
     group_by_type |-> FALSE, group_by_materialName |-> FALSE]

PipelineStart ==
    /\ all_objects = <<>>
    /\ filtered_items = <<>>
    /\ material_dataset = Unbound
    /\ df = Unbound
    /\ table = Unbound
    /\ run_failed = 0
    /\ stored = 0
    /\ raised = FALSE
PipelineIdle ==
    /\ function_inputs = DefaultInputs
    /\ PipelineStart
CallIdle ==
    /\ args = Unbound
    /\ ret = Unbound
PipelineVars == <<function_inputs, all_objects, filtered_items,
                  material_dataset, df, table, run_failed, stored, raised>>
CallVars == <<args, ret>>

----------------------------------------------------------------------------
(* Direct calls of flatten_base on acyclic object graphs *)

MaxNodes == 3

(* all orderings of all subsets of S, as child lists *)
RECURSIVE ChildLists(_)
ChildLists(S) ==
    {<<>>} \cup UNION {{<<x>> \o l : l \in ChildLists(S \ {x})} : x \in S}

(* the attributes a node may hold its child list under: `elements`,        *)
(* `@elements`, or neither when it has no child                             *)
ChildAttrs(S) ==
    {<<>>}
    \cup {<< <<s_elements, List(l)>> >> : l \in ChildLists(S)}
    \cup {<< <<s_atElements, List(l)>> >> : l \in ChildLists(S)}

(* acyclic graphs: the children of node i are among the nodes i+1.. *)
RECURSIVE GraphsFrom(_)
GraphsFrom(i) ==
    IF i > MaxNodes THEN {<<>>}
    ELSE {<<a>> \o rest : a \in ChildAttrs((i + 1)..MaxNodes),
                          rest \in GraphsFrom(i + 1)}

Graphs == GraphsFrom(1)

InitFlatten ==
    /\ heap \in Graphs
    /\ pc = "call"
    /\ args = [base |-> version_root_object]
    /\ ret = Unbound
    /\ PipelineIdle

CallFlatten ==
    /\ pc = "call"
    /\ ret' = flatten_base(heap, args.base)
    /\ pc' = "done"
    /\ UNCHANGED <<heap, args, PipelineVars>>

NextFlatten == CallFlatten

SpecFlatten == InitFlatten /\ [][NextFlatten]_vars

(* the graph as the specification describes it: the child collection of a   *)
(* node under the canonical name, else under the alternate name             *)
ChildrenOf(h, n) ==
    IF HasKey(h[n], s_elements) THEN Lookup(h[n], s_elements, Null).l
    ELSE IF HasKey(h[n], s_atElements) THEN Lookup(h[n], s_atElements, Null).l
    ELSE <<>>

RECURSIVE DescendantsOf(_, _)
DescendantsOf(h, n) ==
    Range(ChildrenOf(h, n))
    \cup UNION {DescendantsOf(h, c) : c \in Range(ChildrenOf(h, n))}

ReachableFrom(h, n) == {n} \cup DescendantsOf(h, n)

(* the number of paths of the graph from node a to node b *)
RECURSIVE PathCount(_, _, _)
PathCount(h, a, b) ==
    IF a = b THEN 1
    ELSE LET kids == ChildrenOf(h, a)
         IN  SumSeq([i \in 1..Len(kids) |-> PathCount(h, kids[i], b)])

Occurrences(s, x) == Cardinality({i \in 1..Len(s) : s[i] = x})

IsTree(h, root) == \A n \in ReachableFrom(h, root) : PathCount(h, root, n) = 1

(* C1 as stated: over any acyclic graph, tree or DAG, flatten_base yields   *)
(* exactly the N reachable nodes, each once, each after all its descendants *)
C1_EachNodeOnce ==
    pc = "done" =>
        /\ Len(ret) = Cardinality(ReachableFrom(heap, args.base))
        /\ \A n \in ReachableFrom(heap, args.base) : Occurrences(ret, n) = 1
        /\ \A i, j \in 1..Len(ret) :
               ret[j] \in DescendantsOf(heap, ret[i]) => j < i

(* C1 amended: flatten_base yields a node once for every path from the root *)
(* to it, so each node exactly once when the graph is a tree, and every     *)
(* occurrence of a node comes after an occurrence of each of its            *)
(* descendants; over a tree that is the post-order of the N nodes.          *)
C1_OncePerPath ==
    pc = "done" =>
        /\ \A n \in 1..MaxNodes :
               Occurrences(ret, n) =
                   IF n \in ReachableFrom(heap, args.base)
                   THEN PathCount(heap, args.base, n) ELSE 0
        /\ \A i \in 1..Len(ret) :
               \A d \in DescendantsOf(heap, ret[i]) :
                   \E j \in 1..(i - 1) : ret[j] = d
        /\ IsTree(heap, args.base) =>
               /\ Len(ret) = Cardinality(ReachableFrom(heap, args.base))
               /\ \A i, j \in 1..Len(ret) :
                      ret[j] \in DescendantsOf(heap, ret[i]) => j < i

(* a DAG whose shared node has been yielded twice *)
C1_Witness ==
    /\ pc = "done"
    /\ ~IsTree(heap, args.base)
    /\ Cardinality(ReachableFrom(heap, args.base)) = MaxNodes
    /\ Len(ret) > MaxNodes

----------------------------------------------------------------------------
(* automate_function, lines 90-122: flattening and category filtering *)

Flatten ==
    /\ pc = "flatten"
    /\ all_objects' = flatten_base(heap, version_root_object)
    /\ pc' = "filter"
    /\ UNCHANGED <<heap, CallVars, function_inputs, filtered_items,
                   material_dataset, df, table, run_failed, stored, raised>>

Filter ==
    /\ pc = "filter"
    /\ filtered_items' = filtered_items_of(heap, function_inputs, all_objects)
    /\ pc' = "extract"
    /\ UNCHANGED <<heap, CallVars, function_inputs, all_objects,
                   material_dataset, df, table, run_failed, stored, raised>>

----------------------------------------------------------------------------
(* Category filtering: direct calls of filter_objects_by_category, and runs *)
(* of automate_function up to the extraction                                *)

MaxObjects == 3
MaxCategories == 2

SeqsUpTo(S, n) == UNION {[1..k -> S] : k \in 0..n}

(* what the `category` attribute of an object may be: absent, None, a name *)
CategoryAttrs ==
    <<  <<>>,
        << <<s_category, Null>> >>,
        << <<s_category, Str(<<"W">>)>> >>,
        << <<s_category, Str(<<"F">>)>> >>  >>

(* a root whose elements are `kids`, and one object per CategoryAttrs *)
CategoryHeap(kids) ==
    [n \in 1..(Len(CategoryAttrs) + 1) |->
        IF n = version_root_object
        THEN IF kids = <<>> THEN <<>> ELSE << <<s_elements, List(kids)>> >>
        ELSE CategoryAttrs[n - 1]]

AllowLists == SeqsUpTo({Str(<<"W">>), Str(<<"F">>), Str(<<>>)}, MaxCategories)

CategoriesInputs ==
    { <<>>, <<" ">>, <<"W">>, <<"F">>, <<"W", ",", " ", "F">>, <<"G", ",", "W">> }

InitFilterCall ==
    /\ heap = CategoryHeap(<<>>)
    /\ pc = "call"
    /\ \E objs \in SeqsUpTo(1..(Len(CategoryAttrs) + 1), MaxObjects),
          cats \in AllowLists :
           args = [all_objects |-> objs, filter_categories |-> cats]
    /\ ret = Unbound
    /\ PipelineIdle

InitFilterRun ==
    /\ \E kids \in SeqsUpTo(2..(Len(CategoryAttrs) + 1), MaxObjects) :
           heap = CategoryHeap(kids)
    /\ pc = "flatten"
    /\ CallIdle
    /\ \E c \in CategoriesInputs :
           function_inputs = [DefaultInputs EXCEPT !.categories = c]
    /\ PipelineStart

InitFilter == InitFilterCall \/ InitFilterRun

CallFilter ==
    /\ pc = "call"
    /\ ret' = filter_objects_by_category(heap, args.all_objects,
                                         args.filter_categories)
    /\ pc' = "done"
    /\ UNCHANGED <<heap, args, PipelineVars>>

NextFilter == CallFilter \/ Flatten \/ Filter

SpecFilter == InitFilter /\ [][NextFilter]_vars

(* C4 as stated: with an empty allow-list the filter returns its input, in  *)
(* a direct call as in the sequence automate_function hands to extraction   *)
C4_EmptyAllowListIsIdentity ==
    /\ (pc = "done" /\ args.filter_categories = <<>>) => ret = args.all_objects
    /\ (pc = "extract" /\ function_inputs.categories = <<>>) =>
           filtered_items = all_objects

(* C4 amended: filter_objects_by_category(all_objects, []) returns the      *)
(* empty list; the pass-through is automate_function's, which does not call *)
(* the filter when `categories` is the empty string and hands all_objects   *)
(* on unchanged.                                                            *)
C4_EmptyCategoriesSkipFilter ==
    /\ (pc = "done" /\ args.filter_categories = <<>>) => ret = <<>>
    /\ (pc = "extract" /\ function_inputs.categories = <<>>) =>
           /\ filtered_items = all_objects
           /\ filtered_items = flatten_base(heap, version_root_object)

(* a run with empty `categories` over a graph of several objects, some of   *)
(* them without a category                                                  *)
C4_Witness ==
    /\ pc = "extract"
    /\ function_inputs.categories = <<>>
    /\ Len(all_objects) = MaxObjects + 1
    /\ \E i \in 1..Len(filtered_items) :
           ~HasKey(heap[filtered_items[i]], s_category)

(* the places of the input whose object has a category of the allow-list *)
AllowedPlaces(h, objs, cats) ==
    {i \in 1..Len(objs) :
        /\ HasKey(h[objs[i]], s_category)
        /\ \E j \in 1..Len(cats) : cats[j] = Lookup(h[objs[i]], s_category, Null)}

(* C5: the output of filter_objects_by_category is the subsequence of the   *)
(* input at the places whose object has a `category` attribute with a value *)
(* in the allow-list: nothing else, nothing missing, input order kept       *)
C5_FilterIsSubsequence ==
    pc = "done" =>
        LET places == AllowedPlaces(heap, args.all_objects, args.filter_categories)
            nth(k) == CHOOSE i \in places :
                          Cardinality({j \in places : j < i}) = k - 1
        IN  /\ Len(ret) = Cardinality(places)
            /\ \A k \in 1..Len(ret) : ret[k] = args.all_objects[nth(k)]

(* some objects kept and some dropped, one of them for having no category *)
C5_Witness ==
    /\ pc = "done"
    /\ Len(ret) >= 2
    /\ Len(ret) < Len(args.all_objects)
    /\ \E i \in 1..Len(args.all_objects) :
           ~HasKey(heap[args.all_objects[i]], s_category)

----------------------------------------------------------------------------
(* Direct calls of get_nested_attr *)

MaxDepth == 2
MaxParts == 3

ResolverKeys == {<<"a">>, <<"b">>, <<"c">>}

(* None, a number, and dicts of one key nested up to the depth d *)
RECURSIVE NestedDicts(_)
NestedDicts(d) ==
    IF d = 0 THEN {Null, Num(1)}
    ELSE {Null, Num(1), Dict(<<>>)}
         \cup {Dict(<< <<k, v>> >>) : k \in ResolverKeys, v \in NestedDicts(d - 1)}

(* the values a path is resolved against: the dicts, and objects with one   *)
(* attribute                                                                *)
ResolverRoots ==
    NestedDicts(MaxDepth)
    \cup {Obj(<< <<k, v>> >>) : k \in ResolverKeys, v \in NestedDicts(MaxDepth - 1)}

(* ".".join(parts) *)
RECURSIVE JoinDot(_)
JoinDot(parts) ==
    IF Len(parts) = 1 THEN Head(parts)
    ELSE Head(parts) \o <<".">> \o JoinDot(Tail(parts))

ResolverPaths ==
    {Str(JoinDot(parts)) : parts \in UNION {[1..k -> ResolverKeys] : k \in 1..MaxParts}}
    \cup {Str(<<>>), Null}

ResolverDefaults ==
    {Null, Num(0), Str(<<"x">>), Dict(<<>>), Dict(<< <<<<"b">>, Num(7)>> >>)}

InitResolver ==
    /\ heap = <<>>
    /\ pc = "call"
    /\ \E o \in ResolverRoots, p \in ResolverPaths, d \in ResolverDefaults :
           args = [obj |-> o, attr_path |-> p, default |-> d]
    /\ ret = Unbound
    /\ PipelineIdle

CallResolver ==
    /\ pc = "call"
    /\ ret' = get_nested_attr(args.obj, args.attr_path, args.default)
    /\ pc' = "done"
    /\ UNCHANGED <<heap, args, PipelineVars>>

NextResolver == CallResolver

SpecResolver == InitResolver /\ [][NextResolver]_vars

(* a segment of the path is absent from the value it is looked up in, or a  *)
(* value before the last segment is None                                    *)
RECURSIVE SegmentMissing(_, _)
SegmentMissing(v, parts) ==
    IF parts = <<>> THEN FALSE
    ELSE LET held == IF v.t = "dict" THEN v.m
                     ELSE IF v.t = "obj" THEN v.a ELSE <<>>
         IN  IF ~HasKey(held, Head(parts)) THEN TRUE
             ELSE IF Tail(parts) = <<>> THEN FALSE
             ELSE IF Lookup(held, Head(parts), Null) = Null THEN TRUE
             ELSE SegmentMissing(Lookup(held, Head(parts), Null), Tail(parts))

(* C6: for any root value, path and default, null or not, scalar or         *)
(* mapping, get_nested_attr returns the default when a segment of the path  *)
(* is absent or an intermediate value is null                               *)
C6_MissingSegmentGivesDefault ==
    (pc = "done" /\ IsStr(args.attr_path)) =>
        (SegmentMissing(args.obj, split(args.attr_path.s, ".")) =>
             ret = args.default)

----------------------------------------------------------------------------
(* automate_function, lines 124-128: the extraction and its except clause *)

Extract ==
    /\ pc = "extract"
    /\ LET result == extract_material_data(heap, filtered_items,
                                           list_prop_of(function_inputs),
                                           function_inputs.calculate_structural)
       IN  IF result.ok
           THEN /\ material_dataset' = result.v
                /\ run_failed' = run_failed
           ELSE /\ material_dataset' = material_dataset
                /\ run_failed' = run_failed + 1
    /\ pc' = "frame"
    /\ UNCHANGED <<heap, CallVars, function_inputs, all_objects,
                   filtered_items, df, table, stored, raised>>

----------------------------------------------------------------------------
(* automate_function, lines 130-171 *)

(* line 131: material_dataset is unbound after a failed extraction, and the *)
(* NameError leaves the function                                            *)
Frame ==
    /\ pc = "frame"
    /\ IF run_failed > 0
       THEN /\ raised' = TRUE
            /\ df' = df
            /\ pc' = "exit"
       ELSE /\ raised' = raised
            /\ df' = DataFrame(material_dataset)
            /\ pc' = IF group_columns_of(function_inputs) = <<>>
                     THEN "write" ELSE "group"
    /\ UNCHANGED <<heap, CallVars, function_inputs, all_objects,
                   filtered_items, material_dataset, table, run_failed, stored>>

(* lines 139-144: the frame is written and the file stored *)
WriteAll ==
    /\ pc = "write"
    /\ table' = df
    /\ stored' = stored + 1
    /\ pc' = "exit"
    /\ UNCHANGED <<heap, CallVars, function_inputs, all_objects,
                   filtered_items, material_dataset, df, run_failed, raised>>

(* lines 145-146: the Excel writer raises *)
WriteAllFails ==
    /\ pc = "write"
    /\ run_failed' = run_failed + 1
    /\ pc' = "exit"
    /\ UNCHANGED <<heap, CallVars, function_inputs, all_objects,
                   filtered_items, material_dataset, df, table, stored, raised>>

(* lines 148-167: the grouping raises and the run is marked failed, or the  *)
(* grouped frame is written                                                 *)
Group ==
    /\ pc = "group"
    /\ LET result == Grouped(df, group_columns_of(function_inputs))
       IN  IF result.ok
           THEN /\ table' = result.v
                /\ run_failed' = run_failed
           ELSE /\ table' = table
                /\ run_failed' = run_failed + 1
    /\ pc' = "store"
    /\ UNCHANGED <<heap, CallVars, function_inputs, all_objects,
                   filtered_items, material_dataset, df, stored, raised>>

(* lines 165-167: the frame is grouped and the Excel writer raises *)
GroupWriteFails ==
    /\ pc = "group"
    /\ Grouped(df, group_columns_of(function_inputs)).ok
    /\ run_failed' = run_failed + 1
    /\ pc' = "store"
    /\ UNCHANGED <<heap, CallVars, function_inputs, all_objects,
                   filtered_items, material_dataset, df, table, stored, raised>>

(* line 171, after the try statement of the grouping branch *)
StoreGrouped ==
    /\ pc = "store"
    /\ stored' = stored + 1
    /\ pc' = "exit"
    /\ UNCHANGED <<heap, CallVars, function_inputs, all_objects,
                   filtered_items, material_dataset, df, table, run_failed, raised>>

----------------------------------------------------------------------------
(* Runs of automate_function up to the extraction, over one element with    *)
(* materials, structural entries and a `Mark` property                      *)

MaxMaterials == 2
MaxStructural == 3

Quantity(n, units) == Dict(<< <<s_value, Num(n)>>, <<s_units, Str(units)>> >>)

MaterialCatalogue ==
    <<  << <<"C">>, Dict(<< <<s_materialName, Str(<<"C">>)>>,
                            << <<"v", "o", "l", "u", "m", "e">>, Quantity(123456, <<"m", "3">>)>> >>) >>,
        << <<"S">>, Dict(<< <<s_materialName, Str(<<"S">>)>>,
                            << <<"a", "r", "e", "a">>, Quantity(200000, <<"m", "2">>)>>,
                            << <<"M", "a", "r", "k">>, Str(<<"m">>)>> >>) >>,
        << <<"G">>, Dict(<< << <<"v", "o", "l", "u", "m", "e">>, Dict(<< <<s_value, Num(5)>> >>)>> >>) >>,
        << <<"T">>, Dict(<<>>) >>  >>

StructuralCatalogue ==
    <<  << <<"L", "1">>, Dict(<< << <<"w", "i", "d", "t", "h">>, Num(1)>>,
                                 << <<"f", "u", "n", "c", "t", "i", "o", "n">>, Str(<<"c", "o", "r", "e">>)>> >>) >>,
        << <<"L", "2">>, Dict(<< << <<"w", "i", "d", "t", "h">>, Num(2)>> >>) >>,
        << <<"L", "3">>, Dict(<< << <<"W", "i", "d", "t", "h">>, Num(3)>>,
                                 << <<"w", "i", "d", "t", "h">>, Num(4)>> >>) >>,
        << <<"L", "4">>, Num(9) >>,
        << <<"L", "5">>, Dict(<< << <<"d", "e", "p", "t", "h">>, Num(5)>> >>) >>  >>

(* the sequences of up to n distinct entries of a catalogue *)
RECURSIVE Arrangements(_, _)
Arrangements(S, n) ==
    IF n = 0 THEN {<<>>}
    ELSE {<<>>} \cup UNION {{<<x>> \o l : l \in Arrangements(S \ {x}, n - 1)} : x \in S}

PickFrom(catalogue, places) == [i \in 1..Len(places) |-> catalogue[places[i]]]

MaterialChoices ==
    {PickFrom(MaterialCatalogue, places) :
        places \in Arrangements(1..Len(MaterialCatalogue), MaxMaterials)}

(* the 'Parameters' entry of properties: absent, None, without or with a    *)
(* null 'Type Parameters', or with the first k structural entries           *)
ParametersChoices ==
    {<<>>,
     << <<s_Parameters, Null>> >>,
     << <<s_Parameters, Dict(<< <<s_TypeParameters, Null>> >>)>> >>,
     << <<s_Parameters, Dict(<< <<s_TypeParameters, Dict(<< <<s_Structure, Null>> >>)>> >>)>> >>}
    \cup {<< <<s_Parameters,
               Dict(<< <<s_TypeParameters,
                         Dict(<< <<s_Structure,
                                   Dict(SubSeq(StructuralCatalogue, 1, k))>> >>)>> >>)>> >> :
             k \in 0..MaxStructural}

ParametersInputs ==
    { <<>>,
      <<"l", "e", "v", "e", "l">>,
      <<"L", "E", "V", "E", "L">>,
      <<"p", "r", "o", "p", "e", "r", "t", "i", "e", "s", ".", "M", "a", "r", "k">>,
      <<"l", "e", "v", "e", "l", ",", " ", "p", "r", "o", "p", "e", "r", "t", "i", "e", "s", ".", "M", "a", "r", "k">>,
      <<"t", "y", "p", "e", ",", "T", "y", "p", "e">>,
      <<"m", "a", "r", "k">>,
      <<"f", "a", "m", "i", "l", "y">> }

ElementHeap(levelAttr, materials, parameters) ==
    <<  << <<s_elements, List(<<2>>)>> >>,
        levelAttr
        \o << <<s_category, Str(<<"W">>)>>,
              <<s_type, Str(<<"T", "1">>)>>,
              <<s_properties,
                Dict(<< << <<"M", "a", "r", "k">>, Str(<<"A", "1">>)>>,
                        <<s_MaterialQuantities, Dict(materials)>> >>
                     \o parameters)>> >>  >>

InitExtract ==
    /\ \E levelAttr \in {<<>>, << <<s_level, Str(<<"L", "1">>)>> >>},
          materials \in MaterialChoices,
          parameters \in ParametersChoices :
           heap = ElementHeap(levelAttr, materials, parameters)
    /\ pc = "flatten"
    /\ CallIdle
    /\ \E p \in ParametersInputs, structural \in BOOLEAN :
           function_inputs = [DefaultInputs EXCEPT !.parameters = p,
                                                   !.calculate_structural = structural]
    /\ PipelineStart

NextExtract == Flatten \/ Filter \/ Extract

SpecExtract == InitExtract /\ [][NextExtract]_vars

(* the object and the zero-based material place each row comes from, in    *)
(* the order of the rows                                                    *)
MaterialsOf(h, item) ==
    DictGet(properties_of(h, item), s_MaterialQuantities, Dict(<<>>)).m

RECURSIVE RowOrigins(_, _)
RowOrigins(h, items) ==
    IF items = <<>> THEN <<>>
    ELSE [i \in 1..Len(MaterialsOf(h, Head(items))) |-> <<Head(items), i - 1>>]
         \o RowOrigins(h, Tail(items))

StructuralEntriesOf(h, item) ==
    LET found == structural_quantities_of(properties_of(h, item), TRUE).v
    IN  IF IsDict(found) THEN found.m ELSE <<>>

HasPrefix(s, prefix) ==
    Len(s) >= Len(prefix) /\ SubSeq(s, 1, Len(prefix)) = prefix

(* the `Structural ...` columns of a row, with their values *)
StructuralPart(row) ==
    {row[j] : j \in {i \in 1..Len(row) : HasPrefix(row[i][1], s_StructuralSp)}}

(* the columns a structural entry gives: one per sub-key, named             *)
(* "Structural " + the capitalised sub-key, the last of a name standing     *)
ColumnsOfEntry(entry) ==
    IF ~IsDict(entry[2]) THEN {}
    ELSE LET sub == entry[2].m
             name(j) == s_StructuralSp \o capitalize(sub[j][1])
         IN  {<<name(j), sub[j][2]>> :
                 j \in {i \in 1..Len(sub) :
                           \A l \in (i + 1)..Len(sub) : name(l) # name(i)}}

(* C7: with structural inclusion enabled, the row of the i-th material of a *)
(* node carries the Structural columns of the node's i-th structural entry  *)
(* and of no other, and none when there is no i-th structural entry; an     *)
(* entry beyond the number of materials is attached to no row               *)
C7_StructuralByPosition ==
    (pc = "frame" /\ run_failed = 0 /\ function_inputs.calculate_structural) =>
        LET origins == RowOrigins(heap, filtered_items)
        IN  /\ Len(material_dataset) = Len(origins)
            /\ \A k \in 1..Len(origins) :
                   LET entries == StructuralEntriesOf(heap, origins[k][1])
                       i == origins[k][2]
                   IN  StructuralPart(material_dataset[k]) =
                           IF i < Len(entries)
                           THEN ColumnsOfEntry(entries[i + 1])
                           ELSE {}

(* two materials against three structural entries: both rows carry their    *)
(* own entry's columns                                                      *)
C7_Witness ==
    /\ pc = "frame"
    /\ run_failed = 0
    /\ function_inputs.calculate_structural
    /\ Len(material_dataset) = MaxMaterials
    /\ Len(StructuralEntriesOf(heap, 2)) = MaxStructural
    /\ StructuralPart(material_dataset[1]) # {}
    /\ StructuralPart(material_dataset[2]) # {}
    /\ StructuralPart(material_dataset[1]) # StructuralPart(material_dataset[2])

FixedColumnNames == {s_Material, s_LevelName, s_Category, s_Family, s_Type}

(* the columns written into a row after the extra parameters: those of the  *)
(* material's attributes and the structural ones                            *)
LaterColumnNames(h, origin, include_structural) ==
    LET attributes == MaterialsOf(h, origin[1])[origin[2] + 1][2]
        structural == structural_quantities_of(properties_of(h, origin[1]),
                                               include_structural).v
    IN  Range(Keys(SetAttributes(<<>>, attributes.m).v))
        \cup Range(Keys(AttachStructural(<<>>, origin[2], include_structural,
                                         structural).v))

(* C8: with an empty `parameters` input every row has the five fixed        *)
(* columns, the columns of its material attributes and, if enabled, its     *)
(* structural columns, and no other column                                  *)
C8_NoExtraColumnWithoutParameters ==
    (pc = "frame" /\ run_failed = 0 /\ function_inputs.parameters = <<>>) =>
        LET origins == RowOrigins(heap, filtered_items)
        IN  \A k \in 1..Len(material_dataset) :
                Range(Keys(material_dataset[k])) =
                    FixedColumnNames
                    \cup LaterColumnNames(heap, origins[k],
                                          function_inputs.calculate_structural)

(* the requested path a column of the given name holds the value of: the    *)
(* last one written under that name                                         *)
LastWithColumn(params, name, column(_)) ==
    params[CHOOSE j \in 1..Len(params) :
               /\ column(params[j]) = name
               /\ \A l \in (j + 1)..Len(params) : column(params[l]) # name]

ParamStored(row, params, j, column(_), h, origin, include_structural) ==
    LET name == column(params[j])
    IN  name \notin LaterColumnNames(h, origin, include_structural) =>
            /\ HasKey(row, name)
            /\ Lookup(row, name, Unbound) =
                   get_nested_attr(Obj(h[origin[1]]),
                                   Str(LastWithColumn(params, name, column)),
                                   Null)

(* C10 as stated: the value of a requested path p is stored under p with    *)
(* its first character upper-cased and the rest as given                    *)
C10_ColumnKeepsRestOfPath ==
    (pc = "frame" /\ run_failed = 0) =>
        LET origins == RowOrigins(heap, filtered_items)
            params == list_prop_of(function_inputs)
        IN  \A k \in 1..Len(material_dataset) : \A j \in 1..Len(params) :
                ParamStored(material_dataset[k], params, j, ParamColumnFirstUpper,
                            heap, origins[k], function_inputs.calculate_structural)

(* C10 amended: the column of a requested path p is p.capitalize(), its     *)
(* first character upper-cased and every other character lower-cased; the   *)
(* row holds under it the value resolved for the last requested path with   *)
(* that column name, None when the path does not resolve, unless a column   *)
(* of a material attribute or a structural column of the same name is       *)
(* written after it                                                         *)
C10_ColumnIsCapitalizedPath ==
    (pc = "frame" /\ run_failed = 0) =>
        LET origins == RowOrigins(heap, filtered_items)
            params == list_prop_of(function_inputs)
        IN  \A k \in 1..Len(material_dataset) : \A j \in 1..Len(params) :
                ParamStored(material_dataset[k], params, j, capitalize,
                            heap, origins[k], function_inputs.calculate_structural)

(* a row holding the resolved property under "Properties.mark" *)
C10_Witness ==
    /\ pc = "frame"
    /\ run_failed = 0
    /\ Len(list_prop_of(function_inputs)) = 2
    /\ Len(material_dataset) >= 1
    /\ Lookup(material_dataset[1],
              <<"P", "r", "o", "p", "e", "r", "t", "i", "e", "s", ".", "m", "a", "r", "k">>,
              Null) = Str(<<"A", "1">>)

----------------------------------------------------------------------------
(* Runs of automate_function over a root with up to MaxChildren elements    *)

MaxChildren == 2

Volume == <<"v", "o", "l", "u", "m", "e">>
Grade == <<"g", "r", "a", "d", "e">>
M3 == <<"m", "3">>

Element(attributes, materials) ==
    attributes
    \o << <<s_type, Str(<<"T", "1">>)>>,
          <<s_properties, Dict(<< <<s_MaterialQuantities, Dict(materials)>> >>)>> >>

(* the root, and the elements it may hold *)
ElementKinds ==
    <<  <<>>,
        \* 2: a wall on level L1, concrete with a numeric grade
        Element(<< <<s_level, Str(<<"L", "1">>)>>, <<s_category, Str(<<"W">>)>> >>,
                << << <<"C">>, Dict(<< <<s_materialName, Str(<<"C">>)>>,
                                       <<Volume, Quantity(123456, M3)>>,
                                       <<Grade, Num(30 * Scale)>> >>) >> >>),
        \* 3: a wall without a level
        Element(<< <<s_category, Str(<<"W">>)>> >>,
                << << <<"C">>, Dict(<< <<s_materialName, Str(<<"C">>)>>,
                                       <<Volume, Quantity(200000, M3)>>,
                                       <<Grade, Num(20 * Scale)>> >>) >> >>),
        \* 4: a floor on level L1, steel with a textual grade
        Element(<< <<s_level, Str(<<"L", "1">>)>>, <<s_category, Str(<<"F">>)>> >>,
                << << <<"S">>, Dict(<< <<s_materialName, Str(<<"S">>)>>,
                                       <<Volume, Quantity(50000, M3)>>,
                                       <<Grade, Str(<<"S", "3", "5", "5">>)>> >>) >> >>),
        \* 5: an element of no category on level L2, with two materials, the
        \*    second without a materialName
        Element(<< <<s_level, Str(<<"L", "2">>)>> >>,
                << << <<"C">>, Dict(<< <<s_materialName, Str(<<"C">>)>>,
                                       <<Volume, Quantity(300004, M3)>>,
                                       <<Grade, Num(25 * Scale)>> >>) >>,
                   << <<"G">>, Dict(<< <<Volume, Quantity(10000, M3)>> >>) >> >>),
        \* 6: a floor whose volume is no number
        Element(<< <<s_level, Str(<<"L", "2">>)>>, <<s_category, Str(<<"F">>)>> >>,
                << << <<"X">>, Dict(<< <<Volume, Dict(<< <<s_value, Str(<<"?">>)>>,
                                                         <<s_units, Str(M3)>> >>)>> >>) >> >>),
        \* 7: an object without properties
        << <<s_category, Str(<<"W">>)>> >>,
        \* 8: a floor on level L2 whose material has no materialName
        Element(<< <<s_level, Str(<<"L", "2">>)>>, <<s_category, Str(<<"F">>)>> >>,
                << << <<"G">>, Dict(<< <<Volume, Quantity(70000, M3)>> >>) >> >>)  >>

RunHeap(kids) ==
    [n \in 1..Len(ElementKinds) |->
        IF n = version_root_object
        THEN IF kids = <<>> THEN <<>> ELSE << <<s_elements, List(kids)>> >>
        ELSE ElementKinds[n]]

RunCategories == { <<>>, <<"W">>, <<"W", ",", " ", "F">> }

Init ==
    /\ \E kids \in Arrangements(2..Len(ElementKinds), MaxChildren) :
           heap = RunHeap(kids)
    /\ pc = "flatten"
    /\ CallIdle
    /\ \E c \in RunCategories, byLevel, byCategory, byType, byName \in BOOLEAN :
           function_inputs = [DefaultInputs EXCEPT !.categories = c,
                                                   !.group_by_level = byLevel,
                                                   !.group_by_category = byCategory,
                                                   !.group_by_type = byType,
                                                   !.group_by_materialName = byName]
    /\ PipelineStart

Next ==
    \/ Flatten
    \/ Filter
    \/ Extract
    \/ Frame
    \/ WriteAll
    \/ WriteAllFails
    \/ Group
    \/ GroupWriteFails
    \/ StoreGrouped

Spec == Init /\ [][Next]_vars

RECURSIVE SumQuantity(_)
SumQuantity(rows) ==
    IF rows = {} THEN 0
    ELSE LET g == CHOOSE x \in rows : TRUE
         IN  g.Quantity + SumQuantity(rows \ {g})

(* C2: whatever grouping flags are enabled, and also when rows hold a null  *)
(* in a grouping column, the Quantity values of the grouped rows add up to  *)
(* the number of ungrouped rows                                             *)
C2_QuantitySumsToRowCount ==
    (pc = "store" /\ run_failed = 0) =>
        SumQuantity(table.rows) = Len(material_dataset)

(* C3: a run reports exactly one outcome: it is marked failed and stores no *)
(* artifact, or it stores exactly one artifact and is never marked failed   *)
C3_ExactlyOneOutcome ==
    /\ ~(run_failed > 0 /\ stored > 0)
    /\ pc = "exit" => \/ (run_failed > 0 /\ stored = 0)
                      \/ (run_failed = 0 /\ stored = 1)

(* the rows of material_dataset a grouped row stands for *)
ClusterOf(rows, group_columns, key) ==
    {k \in 1..Len(rows) :
        \A g \in 1..Len(group_columns) :
            Lookup(rows[k], group_columns[g], NaN) = key[g]}

NumbersOnly(rows, places, column) ==
    /\ \A k \in places : Lookup(rows[k], column, NaN).t \in {"num", "None", "nan"}
    /\ \E k \in places : Lookup(rows[k], column, NaN).t \in {"num", "nan"}

SumOf(rows, places, column) ==
    LET RECURSIVE Total(_)
        Total(S) ==
            IF S = {} THEN 0
            ELSE LET k == CHOOSE x \in S : TRUE
                     v == Lookup(rows[k], column, NaN)
                 IN  (IF v.t = "num" THEN v.n ELSE 0) + Total(S \ {k})
    IN  Total(places)

StringsOf(rows, places, column) ==
    {PyStr(Lookup(rows[k], column, NaN)) : k \in places}

(* the value of every non-grouping column of every grouped row is the sum   *)
(* of the cluster's values when numbersOnly says so of the cluster, and the *)
(* join of their distinct strings otherwise                                 *)
ReducedBy(numbersOnly(_, _)) ==
    \A g \in table.rows : \A c \in 1..Len(table.others) :
        LET cluster == ClusterOf(material_dataset, table.group_columns, g.key)
            column == table.others[c]
        IN  g.cells[c] =
                IF numbersOnly(cluster, column)
                THEN Num(SumOf(material_dataset, cluster, column))
                ELSE Joined(StringsOf(material_dataset, cluster, column))

(* C9 as stated: the reduction of a column is decided cluster by cluster,   *)
(* on the values the column holds within the cluster                        *)
C9_ReductionDecidedPerCluster ==
    (pc = "store" /\ run_failed = 0) =>
        ReducedBy(LAMBDA cluster, column :
                      NumbersOnly(material_dataset, cluster, column))

(* C9 amended: the reduction of a non-grouping column is decided once for   *)
(* the column, over all rows of the table: if every value of the column in  *)
(* every row is a number or missing/null (not all of them None) each        *)
(* cluster gets the sum of its values, missing/null counted as 0; otherwise *)
(* every cluster, also one whose own values are all numbers, gets the       *)
(* distinct string representations of its values joined with ", "           *)
C9_ReductionDecidedPerColumn ==
    (pc = "store" /\ run_failed = 0) =>
        ReducedBy(LAMBDA cluster, column :
                      NumbersOnly(material_dataset,
                                  1..Len(material_dataset), column))

(* two clusters, the grade a number in one and a text in the other: the     *)
(* numeric cluster holds the joined string of its grade                     *)
C9_Witness ==
    /\ pc = "store"
    /\ run_failed = 0
    /\ Cardinality(table.rows) >= 2
    /\ \E g \in table.rows : \E c \in 1..Len(table.others) :
           LET cluster == ClusterOf(material_dataset, table.group_columns, g.key)
           IN  /\ table.others[c] = Grade
               /\ NumbersOnly(material_dataset, cluster, Grade)
               /\ ~NumbersOnly(material_dataset, 1..Len(material_dataset), Grade)
               /\ g.cells[c] = Joined({FloatStr(30 * Scale)})

====
